---- MODULE Spec2Model ----
(***************************************************************************)
(* mqbase-init (src/docker/mqbase-init.c): the PID-1 supervisor of the     *)
(* mqBase container.  main() installs the INT/TERM handler, materialises   *)
(* the credentials (setup_credentials), prepares the filesystem, forks     *)
(* nginx, sqld and mosquitto, monitors them and drains the group.          *)
(*                                                                         *)
(* C strings are sequences of one-character strings.  A pointer that may   *)
(* be NULL, and a file that may not exist, is <<>> (NULL / absent) or      *)
(* <<v>> (the value v).                                                    *)
(***************************************************************************)
EXTENDS Integers, Sequences, FiniteSets, TLC

\* ------------------------------------------------------------------ bounds
MaxLen == 2        \* longest environment credential string enumerated
MaxLines == 2      \* most lines of the secrets file enumerated
MaxSignals == 2    \* most INT/TERM deliveries in one execution
MaxOrphans == 1    \* most orphan processes adopted by PID 1 in one execution

\* ------------------------------------------------------- program constants
MAX_PROCS == 3
UserSize == 64         \* char mqtt_user[64], http_user[64]
PassSize == 256        \* char mqtt_pass[256], http_pass[256], mqtt_buf[256]
FileCredSize == 256    \* char file_mqtt_cred[256], file_http_cred[256]
JsonSize == 256        \* char json[256]
HtpasswdSize == 512    \* char htpasswd[512]
PlainSize == 256       \* char htpasswd[256] of the {PLAIN} fallback
AppConfigSize == 512   \* char app_config[512]
GenLen == 17           \* generate_password(.., 17)
SaltLen == 17          \* generate_salt(salt + 3, 17)
RbufSize == 32         \* unsigned char rbuf[32]

NUL == "NUL"           \* the terminating '\0' of a C string
NULL == <<>>
Some(v) == <<v>>

Min(a, b) == IF a < b THEN a ELSE b

\* ------------------------------------------------------------ input space
Chars == {"a", ":"}
Strings(n) == UNION {[1..k -> Chars] : k \in 0..n}
\* a user name that just fills char mqtt_user[64] / http_user[64]
LongUser == [i \in 1..UserSize |-> "a"]
\* getenv: unset, every short string, and one credential with the long user
EnvValues ==
    {NULL} \cup {Some(s) : s \in Strings(MaxLen)} \cup {Some(LongUser \o <<":", "a">>)}

\* values a record of the secrets file may carry: none, one without ':',
\* a well-formed one (its letter differs from the environment's)
FileStrings == {<<>>, <<"b">>, <<"b", ":", "b">>}
FileLines ==
    {[key |-> k, val |-> v] : k \in {"MQBASE_USER=", "MQBASE_MQTT_USER="}, v \in FileStrings}
        \cup {[key |-> "#", val |-> <<>>]}
SecretsFiles == {NULL} \cup {Some(ls) : ls \in UNION {[1..k -> FileLines] : k \in 0..MaxLines}}

\* what the random source may hand out: bytes 61 and 62 straddle the modulus
ByteSamples == {61, 62}
\* read(fd, rbuf, 32): an error, a short read, a full read
ShortRead == 5
ReadResults == {-1, 0, ShortRead, RbufSize}

ArtifactPaths == {"/tmp/mqtt-credentials.json", "/tmp/htpasswd", "/tmp/app-config.json"}
AppEnvNames == {"version", "title", "logo", "favicon"}

\* -------------------------------------------------------------- C library
\* strchr(s, ':'): the index of the first ':' of s, 0 when there is none
strchr_colon(s) ==
    IF \E i \in 1..Len(s) : s[i] = ":"
    THEN CHOOSE i \in 1..Len(s) : s[i] = ":" /\ \A j \in 1..(i - 1) : s[j] # ":"
    ELSE 0

\* strncpy(dst, src, n) into a zero-filled dst of n + 1 bytes, read back as a string
strncpy(src, n) == SubSeq(src, 1, Min(Len(src), n))

\* the C string held by a buffer: the bytes before the first NUL
CStr(buf) ==
    IF \E i \in 1..Len(buf) : buf[i] = NUL
    THEN SubSeq(buf, 1, (CHOOSE i \in 1..Len(buf) : buf[i] = NUL /\ \A j \in 1..(i - 1) : buf[j] # NUL) - 1)
    ELSE buf

\* snprintf(buf, size, ...): the formatted text cut to size - 1 characters
snprintf(size, text) == SubSeq(text, 1, Min(Len(text), size - 1))

\* ------------------------------------------------------- literal strings
charset62 ==
    <<"A", "B", "C", "D", "E", "F", "G", "H", "I", "J", "K", "L", "M", "N", "O", "P", "Q", "R", "S", "T", "U", "V", "W", "X", "Y", "Z", "a", "b", "c", "d", "e", "f", "g", "h", "i", "j", "k", "l", "m", "n", "o", "p", "q", "r", "s", "t", "u", "v", "w", "x", "y", "z", "0", "1", "2", "3", "4", "5", "6", "7", "8", "9", NUL>>
charset64 ==
    <<"A", "B", "C", "D", "E", "F", "G", "H", "I", "J", "K", "L", "M", "N", "O", "P", "Q", "R", "S", "T", "U", "V", "W", "X", "Y", "Z", "a", "b", "c", "d", "e", "f", "g", "h", "i", "j", "k", "l", "m", "n", "o", "p", "q", "r", "s", "t", "u", "v", "w", "x", "y", "z", "0", "1", "2", "3", "4", "5", "6", "7", "8", "9", ".", "/", NUL>>
JsonUser == <<"{", "\"", "u", "s", "e", "r", "n", "a", "m", "e", "\"", ":", "\"">>
JsonPass == <<"\"", ",", "\"", "p", "a", "s", "s", "w", "o", "r", "d", "\"", ":", "\"">>
JsonEnd == <<"\"", "}">>
AppVersion == <<"{", "\"", "v", "e", "r", "s", "i", "o", "n", "\"", ":", "\"">>
AppTitle == <<"\"", ",", "\"", "t", "i", "t", "l", "e", "\"", ":", "\"">>
AppLogo == <<"\"", ",", "\"", "l", "o", "g", "o", "\"", ":", "\"">>
AppFavicon == <<"\"", ",", "\"", "f", "a", "v", "i", "c", "o", "n", "\"", ":", "\"">>
Sha512Prefix == <<"$", "6", "$">>
PlainPrefix == <<"{", "P", "L", "A", "I", "N", "}">>
Admin == <<"a", "d", "m", "i", "n">>
Alphanumeric == {charset62[i] : i \in 1..(Len(charset62) - 1)}

\* ------------------------------------------------------------------ state
VARIABLES
    pc,              \* where main() is
    exitCode,        \* <<>> while main runs, <<status>> once it has returned
    env,             \* the environment: name -> NULL or <<value>>
    secretsFile,     \* /mosquitto/config/secrets.conf: NULL or <<lines>>
    file_mqtt_cred, file_http_cred,
    mqtt_cred, http_cred,
    mqtt_from_env, http_from_env, mqtt_from_file, http_from_file,
    mqtt_user, mqtt_pass, http_user, http_pass,
    stderr,          \* the credential lines written to the diagnostic stream
    files,           \* the artifact files: path -> NULL or <<content>>
    genOutcome,      \* what the random source did for each generated secret
    writeFailed,     \* the artifact paths whose write_file returned -1
    unwritable,      \* the artifact paths fopen(path, "w") fails on
    cryptWorks,      \* whether crypt() knows the "$6$" scheme
    setup_ret,       \* what setup_credentials returned to main
    running,         \* static volatile int running
    pids,            \* static pid_t pids[MAX_PROCS]
    ret,             \* the value fork() returned, not yet stored in pids[]
    idx,             \* the loop index of the shutdown loops
    died,            \* what the monitor loop's last waitpid returned
    status,          \* each child process: "none", "alive", "zombie", "reaped"
    termed,          \* the children that have been sent TERM
    kills,           \* every kill() issued: slot, caller, the target's state
    forkCount,       \* successful and failed fork() calls per slot
    monitored,       \* whether main entered the monitor loop with running set
    dbFiles,         \* the six files sqld creates: "absent" or their mode
    brokerSaw,       \* dbFiles as they were when mosquitto was forked
    sigCount,        \* INT/TERM deliveries so far
    orphans,         \* adopted orphan zombies waiting to be reaped
    orphanCount

credVars ==
    <<env, secretsFile, file_mqtt_cred, file_http_cred, mqtt_cred, http_cred,
      mqtt_from_env, http_from_env, mqtt_from_file, http_from_file,
      mqtt_user, mqtt_pass, http_user, http_pass, stderr, files, genOutcome,
      writeFailed, unwritable, cryptWorks, setup_ret>>
procVars ==
    <<running, pids, ret, idx, died, status, termed, kills, forkCount, monitored,
      dbFiles, brokerSaw, sigCount, orphans, orphanCount>>
vars == <<pc, exitCode, credVars, procVars>>

Slots == 0..(MAX_PROCS - 1)
proc_names == [i \in Slots |-> <<"nginx", "sqld", "mosquitto">>[i + 1]]
DbFileNames == {"data", "data-shm", "data-wal", ".sentinel", "stats.json", "wallog"}

\* the process id fork() hands out for slot i (1 is the supervisor itself)
PidOf(i) == i + 2
OrphanPid == MAX_PROCS + 2

\* the state main() starts in, for a given environment, secrets file, set of
\* unwritable artifact paths and crypt library
Start(e, f, u, cw) ==
    /\ pc = "install"
    /\ exitCode = NULL
    /\ env = e
    /\ secretsFile = f
    /\ file_mqtt_cred = <<>>
    /\ file_http_cred = <<>>
    /\ mqtt_cred = NULL
    /\ http_cred = NULL
    /\ mqtt_from_env = FALSE
    /\ http_from_env = FALSE
    /\ mqtt_from_file = FALSE
    /\ http_from_file = FALSE
    /\ mqtt_user = Admin
    /\ mqtt_pass = <<>>
    /\ http_user = Admin
    /\ http_pass = <<>>
    /\ stderr = <<>>
    /\ files = [p \in ArtifactPaths |-> NULL]
    /\ genOutcome = [c \in {"MQTT", "HTTP"} |-> "none"]
    /\ writeFailed = {}
    /\ unwritable = u
    /\ cryptWorks = cw
    /\ setup_ret = 0
    /\ running = TRUE
    /\ pids = [i \in Slots |-> 0]
    /\ ret = 0
    /\ idx = 0
    /\ died = 0
    /\ status = [i \in Slots |-> "none"]
    /\ termed = {}
    /\ kills = {}
    /\ forkCount = [i \in Slots |-> 0]
    /\ monitored = FALSE
    /\ dbFiles = [n \in DbFileNames |-> "absent"]
    /\ brokerSaw = NULL
    /\ sigCount = 0
    /\ orphans = 0
    /\ orphanCount = 0

\* the app-metadata variables: logo unset, the others as in scenario S4
AppEnv ==
    [n \in AppEnvNames |->
        IF n = "version" THEN Some(<<"1", ".", "2">>)
        ELSE IF n = "title" THEN Some(<<"D">>)
        ELSE IF n = "logo" THEN NULL
        ELSE Some(<<"/", "f">>)]

Environments ==
    { [n \in AppEnvNames \cup {"MQBASE_MQTT_USER", "MQBASE_USER"} |->
          IF n = "MQBASE_MQTT_USER" THEN m ELSE IF n = "MQBASE_USER" THEN h ELSE AppEnv[n]] :
        m \in EnvValues, h \in EnvValues }

\* /tmp as the program may find it: writable, not writable at all, or one of
\* the three paths taken (a directory, a file of another user)
UnwritableSets == {{}, ArtifactPaths} \cup {{p} : p \in ArtifactPaths}

\* the filesystem and crypt library the bootstrapper may meet: a crypt without
\* "$6$" is paired with a writable /tmp
Platforms ==
    {[unwritable |-> u, crypt |-> TRUE] : u \in UnwritableSets}
        \cup {[unwritable |-> {}, crypt |-> FALSE]}

\* every environment, secrets file and platform of the input space
InitCred ==
    \E e \in Environments, f \in SecretsFiles, pf \in Platforms :
        Start(e, f, pf.unwritable, pf.crypt)

\* ------------------------------------------------------------ bootstrapper
\* a buffer of n bytes holding the C string s, zero-filled behind it
Buffer(s, n) == [i \in 1..n |-> IF i <= Len(s) THEN s[i] ELSE NUL]

\* the outcomes of open("/dev/urandom") and read(fd, rbuf, 32): rnd fills the
\* bytes read (or is what rand() returns), junk is what the bytes not read hold
GenOutcomes ==
    {[open |-> FALSE, n |-> 0, rnd |-> r, junk |-> r] : r \in ByteSamples}
        \cup {[open |-> TRUE, n |-> n, rnd |-> 61, junk |-> 61] : n \in {k \in ReadResults : k <= 0}}
        \cup {[open |-> TRUE, n |-> n, rnd |-> 61, junk |-> j] :
                n \in {k \in ReadResults : k > 0 /\ k < RbufSize}, j \in ByteSamples}
        \cup {[open |-> TRUE, n |-> RbufSize, rnd |-> r, junk |-> r] : r \in ByteSamples}

OutcomeName(o) ==
    IF ~o.open THEN "openfail"
    ELSE IF o.n <= 0 THEN "readfail"
    ELSE IF o.n < RbufSize THEN "short" ELSE "full"

\* generate_password(buf, len): the buffer afterwards, outcome o of the random source
generate_password(buf, len, o) ==
    LET rbuf == [i \in 1..RbufSize |-> IF i <= o.n THEN o.rnd ELSE o.junk]
        n62 == Len(charset62) - 1
    IN  [i \in 1..len |->
            IF i = len THEN NUL
            ELSE IF ~o.open THEN charset62[(o.rnd % n62) + 1]
            ELSE IF o.n > 0 THEN charset62[(rbuf[i] % n62) + 1]
            ELSE buf[i]]

\* generate_salt(salt, len): nothing is written when the random source fails
generate_salt(buf, len, o) ==
    LET rbuf == [i \in 1..RbufSize |-> IF i <= o.n THEN o.rnd ELSE o.junk]
        n64 == Len(charset64) - 1
    IN  [i \in 1..len |->
            IF i = len THEN NUL
            ELSE IF o.open /\ o.n > 0 THEN charset64[(rbuf[i] % n64) + 1]
            ELSE buf[i]]

\* crypt(pass, salt) when it succeeds: "$6$salt$" and a digest of pass; the
\* digest is opaque, a marker followed by the plaintext stands for it
crypt(pass, salt) == salt \o <<"$", "#">> \o pass

\* load_secrets_file's loop over the lines: the last record of a key wins
RECURSIVE load_lines(_, _)
load_lines(lines, acc) ==
    IF lines = <<>> THEN acc
    ELSE LET l == Head(lines)
         IN  load_lines(Tail(lines),
                 IF l.key = "MQBASE_USER="
                 THEN [acc EXCEPT !.http = strncpy(l.val, FileCredSize - 1)]
                 ELSE IF l.key = "MQBASE_MQTT_USER="
                 THEN [acc EXCEPT !.mqtt = strncpy(l.val, FileCredSize - 1)]
                 ELSE acc)

\* load_secrets_file(): its return value and the two static buffers afterwards
load_secrets_file(f, http, mqtt) ==
    IF f = NULL THEN [ret |-> 0, http |-> http, mqtt |-> mqtt]
    ELSE [ret |-> 1] @@ load_lines(f[1], [http |-> http, mqtt |-> mqtt])

\* "use env var if set, otherwise fall back to file": the pointer and the flags
select_source(envCred, secrets_loaded, fileCred) ==
    IF envCred = NULL /\ secrets_loaded # 0 /\ fileCred # <<>>
    THEN [cred |-> Some(fileCred), from_file |-> TRUE, from_env |-> FALSE]
    ELSE IF envCred # NULL
    THEN [cred |-> envCred, from_file |-> FALSE, from_env |-> TRUE]
    ELSE [cred |-> envCred, from_file |-> FALSE, from_env |-> FALSE]

\* whether setup_credentials takes the parse branch for the pointer cred
has_separator(cred) == cred # NULL /\ strchr_colon(cred[1]) # 0

\* the parse branch: user and pass after the split at the first ':'
parse_credential(cred, user, pass) ==
    LET buf == strncpy(cred, PassSize - 1)
        sep == strchr_colon(buf)
    IN  IF sep # 0
        THEN [user |-> strncpy(SubSeq(buf, 1, sep - 1), UserSize - 1),
              pass |-> strncpy(SubSeq(buf, sep + 1, Len(buf)), PassSize - 1)]
        ELSE [user |-> user, pass |-> pass]

\* write_file(path, content): fopen fails (ok = FALSE) or the file holds content
can_open(path) == path \notin unwritable

write_file(fs, path, content, ok) ==
    IF ok THEN [ret |-> 0, files |-> [fs EXCEPT ![path] = Some(content)]]
    ELSE [ret |-> -1, files |-> fs]

InstallHandlers ==
    /\ pc = "install"
    /\ pc' = "load"
    /\ UNCHANGED <<exitCode, credVars, procVars>>

\* setup_credentials, lines 141-164: getenv, load_secrets_file, source selection
LoadSecrets ==
    /\ pc = "load"
    /\ LET envM == env["MQBASE_MQTT_USER"]
           envH == env["MQBASE_USER"]
           loaded == IF envM = NULL \/ envH = NULL
                     THEN load_secrets_file(secretsFile, file_http_cred, file_mqtt_cred)
                     ELSE [ret |-> 0, http |-> file_http_cred, mqtt |-> file_mqtt_cred]
           m == select_source(envM, loaded.ret, loaded.mqtt)
           h == select_source(envH, loaded.ret, loaded.http)
       IN  /\ file_mqtt_cred' = loaded.mqtt
           /\ file_http_cred' = loaded.http
           /\ mqtt_cred' = m.cred
           /\ mqtt_from_file' = m.from_file
           /\ mqtt_from_env' = m.from_env
           /\ http_cred' = h.cred
           /\ http_from_file' = h.from_file
           /\ http_from_env' = h.from_env
    /\ pc' = "resolve_mqtt"
    /\ UNCHANGED <<exitCode, env, secretsFile, mqtt_user, mqtt_pass, http_user, http_pass,
                   stderr, files, genOutcome, writeFailed, unwritable, cryptWorks,
                   setup_ret, procVars>>

\* setup_credentials, lines 166-188
ResolveMqtt ==
    /\ pc = "resolve_mqtt"
    /\ IF has_separator(mqtt_cred)
       THEN LET r == parse_credential(mqtt_cred[1], mqtt_user, mqtt_pass)
            IN  /\ mqtt_user' = r.user
                /\ mqtt_pass' = r.pass
                /\ stderr' = IF mqtt_from_file
                             THEN Append(stderr, [kind |-> "loaded", cred |-> "MQTT"])
                             ELSE stderr
                /\ UNCHANGED genOutcome
       ELSE \E o \in GenOutcomes :
                LET p == CStr(generate_password(Buffer(mqtt_pass, PassSize), GenLen, o))
                IN  /\ mqtt_pass' = p
                    /\ stderr' = Append(stderr, [kind |-> "banner", cred |-> "MQTT",
                                                 user |-> Admin, password |-> p])
                    /\ genOutcome' = [genOutcome EXCEPT !["MQTT"] = OutcomeName(o)]
                    /\ UNCHANGED mqtt_user
    /\ pc' = "resolve_http"
    /\ UNCHANGED <<exitCode, env, secretsFile, file_mqtt_cred, file_http_cred, mqtt_cred,
                   http_cred, mqtt_from_env, http_from_env, mqtt_from_file, http_from_file,
                   http_user, http_pass, files, writeFailed, unwritable,
                   cryptWorks, setup_ret, procVars>>

\* setup_credentials, lines 190-212
ResolveHttp ==
    /\ pc = "resolve_http"
    /\ IF has_separator(http_cred)
       THEN LET r == parse_credential(http_cred[1], http_user, http_pass)
            IN  /\ http_user' = r.user
                /\ http_pass' = r.pass
                /\ stderr' = IF http_from_file
                             THEN Append(stderr, [kind |-> "loaded", cred |-> "HTTP"])
                             ELSE stderr
                /\ UNCHANGED genOutcome
       ELSE \E o \in GenOutcomes :
                LET p == CStr(generate_password(Buffer(http_pass, PassSize), GenLen, o))
                IN  /\ http_pass' = p
                    /\ stderr' = Append(stderr, [kind |-> "banner", cred |-> "HTTP",
                                                 user |-> Admin, password |-> p])
                    /\ genOutcome' = [genOutcome EXCEPT !["HTTP"] = OutcomeName(o)]
                    /\ UNCHANGED http_user
    /\ pc' = "write_json"
    /\ UNCHANGED <<exitCode, env, secretsFile, file_mqtt_cred, file_http_cred, mqtt_cred,
                   http_cred, mqtt_from_env, http_from_env, mqtt_from_file, http_from_file,
                   mqtt_user, mqtt_pass, files, writeFailed, unwritable,
                   cryptWorks, setup_ret, procVars>>

MqttJson(user, pass) == snprintf(JsonSize, JsonUser \o user \o JsonPass \o pass \o JsonEnd)

\* setup_credentials, lines 214-217: the result of write_file is dropped
WriteMqttJson ==
    /\ pc = "write_json"
    /\ LET w == write_file(files, "/tmp/mqtt-credentials.json", MqttJson(mqtt_user, mqtt_pass),
                            can_open("/tmp/mqtt-credentials.json"))
       IN  /\ files' = w.files
            /\ writeFailed' = IF w.ret # 0 THEN writeFailed \cup {"/tmp/mqtt-credentials.json"}
                              ELSE writeFailed
    /\ pc' = "write_htpasswd"
    /\ UNCHANGED <<exitCode, env, secretsFile, file_mqtt_cred, file_http_cred, mqtt_cred,
                   http_cred, mqtt_from_env, http_from_env, mqtt_from_file, http_from_file,
                   mqtt_user, mqtt_pass, http_user, http_pass, stderr, genOutcome,
                   unwritable, cryptWorks, setup_ret, procVars>>

\* the random source as generate_salt is given it: a full read
SaltOutcomes == {o \in GenOutcomes : o.rnd = 62 /\ o.open /\ o.n = RbufSize}

Htpasswd(user, pass, hashed) ==
    IF hashed # NULL
    THEN snprintf(HtpasswdSize, user \o <<":">> \o hashed[1] \o <<"\n">>)
    ELSE snprintf(PlainSize, user \o <<":">> \o PlainPrefix \o pass \o <<"\n">>)

\* setup_credentials, lines 219-232: crypt may return NULL
WriteHtpasswd ==
    /\ pc = "write_htpasswd"
    /\ \E o \in SaltOutcomes :
        LET salt == Sha512Prefix \o CStr(generate_salt(Buffer(<<>>, SaltLen), SaltLen, o))
            hashed == IF cryptWorks THEN Some(crypt(http_pass, salt)) ELSE NULL
            w == write_file(files, "/tmp/htpasswd", Htpasswd(http_user, http_pass, hashed),
                            can_open("/tmp/htpasswd"))
        IN  /\ files' = w.files
            /\ writeFailed' = IF w.ret # 0 THEN writeFailed \cup {"/tmp/htpasswd"}
                              ELSE writeFailed
    /\ pc' = "write_appconfig"
    /\ UNCHANGED <<exitCode, env, secretsFile, file_mqtt_cred, file_http_cred, mqtt_cred,
                   http_cred, mqtt_from_env, http_from_env, mqtt_from_file, http_from_file,
                   mqtt_user, mqtt_pass, http_user, http_pass, stderr, genOutcome,
                   unwritable, cryptWorks, setup_ret, procVars>>

OrEmpty(v) == IF v = NULL THEN <<>> ELSE v[1]

AppConfig(e) ==
    snprintf(AppConfigSize,
             AppVersion \o OrEmpty(e["version"]) \o AppTitle \o OrEmpty(e["title"])
                 \o AppLogo \o OrEmpty(e["logo"]) \o AppFavicon \o OrEmpty(e["favicon"])
                 \o JsonEnd)

\* setup_credentials, lines 234-248: the last write, then "return 0"
WriteAppConfig ==
    /\ pc = "write_appconfig"
    /\ LET w == write_file(files, "/tmp/app-config.json", AppConfig(env),
                            can_open("/tmp/app-config.json"))
       IN  /\ files' = w.files
            /\ writeFailed' = IF w.ret # 0 THEN writeFailed \cup {"/tmp/app-config.json"}
                              ELSE writeFailed
    /\ setup_ret' = 0
    /\ pc' = "check_setup"
    /\ UNCHANGED <<exitCode, env, secretsFile, file_mqtt_cred, file_http_cred, mqtt_cred,
                   http_cred, mqtt_from_env, http_from_env, mqtt_from_file, http_from_file,
                   mqtt_user, mqtt_pass, http_user, http_pass, stderr, genOutcome,
                   unwritable, cryptWorks, procVars>>

\* main, lines 289-293
CheckSetup ==
    /\ pc = "check_setup"
    /\ IF setup_ret # 0
       THEN pc' = "done" /\ exitCode' = Some(1)
       ELSE pc' = "mkdirs" /\ UNCHANGED exitCode
    /\ UNCHANGED <<credVars, procVars>>

NextCred ==
    \/ InstallHandlers
    \/ LoadSecrets
    \/ ResolveMqtt
    \/ ResolveHttp
    \/ WriteMqttJson
    \/ WriteHtpasswd
    \/ WriteAppConfig
    \/ CheckSetup

\* the bootstrapper alone, over the whole input space
SpecCred == InitCred /\ [][NextCred]_vars

\* -------------------------------------------------------------- supervisor
\* kill(pid, SIGTERM) on slot i: the process is told to terminate if it still
\* exists; the call, its caller and the target's state are recorded
KillSlots(S, by) ==
    /\ termed' = termed \cup {i \in S : status[i] \in {"alive", "zombie"}}
    /\ kills' = kills \cup {[slot |-> i, by |-> by, st |-> status[i]] : i \in S}

\* recorded with the test "if (pids[i])"
recorded_nonzero(pid) == pid # 0

\* "if (pids[i] > 0)" of the handler and of the two shutdown loops
recorded(pid) == pid > 0

\* signal_handler forwarding TERM without clearing running
signal_handler_forward_only ==
    /\ running' = running
    /\ KillSlots({i \in Slots : recorded(pids[i])}, "handler")

\* signal_handler: running = 0, TERM to every recorded pid
signal_handler ==
    /\ running' = FALSE
    /\ KillSlots({i \in Slots : recorded(pids[i])}, "handler")

\* INT or TERM is delivered while the handlers are installed and main runs
Signal ==
    /\ pc \notin {"install", "done"}
    /\ sigCount < MaxSignals
    /\ sigCount' = sigCount + 1
    /\ signal_handler
    /\ UNCHANGED <<pc, exitCode, credVars, pids, ret, idx, died, status, forkCount,
                   monitored, dbFiles, brokerSaw, orphans, orphanCount>>

\* main, lines 295-314: mkdir, chmod, touch the broker log
PrepareFs ==
    /\ pc = "mkdirs"
    /\ pc' = "fork0"
    /\ UNCHANGED <<exitCode, credVars, procVars>>

ForkPc(i) == <<"fork0", "fork1", "fork2">>[i + 1]
StorePc(i) == <<"store0", "store1", "store2">>[i + 1]
\* AfterStorePc with the broker started again after its pid was stored
AfterStorePc_restart(i) == <<"fork1", "sleep", "fork2">>[i + 1]
AfterStorePc(i) == <<"fork1", "sleep", "monitor">>[i + 1]

\* start_process: fork() gives the parent a pid, or -1
StartProcess(i) ==
    /\ pc = ForkPc(i)
    /\ \E ok \in BOOLEAN :
        IF ok
        THEN /\ ret' = PidOf(i)
             /\ status' = [status EXCEPT ![i] = "alive"]
             /\ forkCount' = [forkCount EXCEPT ![i] = @ + 1]
             /\ brokerSaw' = IF i = MAX_PROCS - 1 THEN Some(dbFiles) ELSE brokerSaw
        ELSE /\ ret' = -1
             /\ UNCHANGED <<status, forkCount, brokerSaw>>
    /\ pc' = StorePc(i)
    /\ UNCHANGED <<exitCode, credVars, running, pids, idx, died, termed, kills, monitored,
                   dbFiles, sigCount, orphans, orphanCount>>

\* main: "pids[i] = start_process(...)" and the "Started" line, whatever fork returned
StorePid(i) ==
    /\ pc = StorePc(i)
    /\ pids' = [pids EXCEPT ![i] = ret]
    /\ pc' = AfterStorePc(i)
    /\ UNCHANGED <<exitCode, credVars, running, ret, idx, died, status, termed, kills,
                   forkCount, monitored, dbFiles, brokerSaw, sigCount, orphans, orphanCount>>

\* main, line 333: sleep(2) ends after two seconds or when a signal was handled
Sleep ==
    /\ pc = "sleep"
    /\ pc' = "chmod"
    /\ UNCHANGED <<exitCode, credVars, procVars>>

\* chmod(path, 0666) on one file: ENOENT changes nothing and is not looked at
chmod666(mode) == IF mode = "absent" THEN "absent" ELSE "0666"

\* main, lines 335-341
ChmodDbFiles ==
    /\ pc = "chmod"
    /\ dbFiles' = [n \in DbFileNames |-> chmod666(dbFiles[n])]
    /\ pc' = "fork2"
    /\ UNCHANGED <<exitCode, credVars, running, pids, ret, idx, died, status, termed, kills,
                   forkCount, monitored, brokerSaw, sigCount, orphans, orphanCount>>

\* known_pid with the comparison against the pid table left out
known_pid_any(p) == TRUE

\* known_pid with the loop stopping after the first slot
known_pid_first_slot(p) == pids[0] = p

\* whether the monitor loop takes the reaped pid for one of its children
known_pid(p) == \E j \in Slots : pids[j] = p

\* main, lines 351-367: one turn of the monitor loop, reaping slot i, an orphan
\* (who = -1) or nothing (who = -2)
MonitorPoll ==
    /\ pc = "monitor"
    /\ running
    /\ monitored' = TRUE
    /\ \E who \in Slots \cup {-1, -2} :
        /\ IF who \in Slots
           THEN /\ status[who] = "zombie"
                /\ died' = PidOf(who)
                /\ status' = [status EXCEPT ![who] = "reaped"]
                /\ UNCHANGED orphans
           ELSE IF who = -1
           THEN /\ orphans > 0
                /\ died' = OrphanPid
                /\ orphans' = orphans - 1
                /\ UNCHANGED status
           ELSE /\ orphans = 0
                /\ \A j \in Slots : status[j] # "zombie"
                /\ died' = IF \E j \in Slots : status[j] = "alive" THEN 0 ELSE -1
                /\ UNCHANGED <<status, orphans>>
        /\ running' = IF died' > 0 /\ known_pid(died') THEN FALSE ELSE running
    /\ UNCHANGED <<pc, exitCode, credVars, pids, ret, idx, termed, kills, forkCount,
                   dbFiles, brokerSaw, sigCount, orphanCount>>

\* main, line 351 with running cleared, line 370
MonitorExit ==
    /\ pc = "monitor"
    /\ ~running
    /\ pc' = "kill"
    /\ idx' = 0
    /\ UNCHANGED <<exitCode, credVars, running, pids, ret, died, status, termed, kills,
                   forkCount, monitored, dbFiles, brokerSaw, sigCount, orphans, orphanCount>>

\* main, lines 371-375: one turn of the TERM loop
CleanupKill ==
    /\ pc = "kill"
    /\ IF recorded(pids[idx])
       THEN KillSlots({idx}, "cleanup")
       ELSE UNCHANGED <<termed, kills>>
    /\ IF idx = MAX_PROCS - 1
       THEN pc' = "wait" /\ idx' = 0
       ELSE pc' = pc /\ idx' = idx + 1
    /\ UNCHANGED <<exitCode, credVars, running, pids, ret, died, status, forkCount,
                   monitored, dbFiles, brokerSaw, sigCount, orphans, orphanCount>>

\* should_wait with the drain made conditional on the running flag
should_wait_if_running(pid) == recorded(pid) /\ running

\* "if (pids[i] > 0)" of the drain loop, line 379
should_wait(pid) == recorded(pid)

\* main, lines 377-385: one turn of the drain loop; waitpid(pid, NULL, 0) blocks
\* while the child lives (the handlers restart it), reaps a zombie, and returns
\* at once for a pid already reaped; after the last turn main returns 0
DrainWait ==
    /\ pc = "wait"
    /\ IF should_wait(pids[idx])
       THEN /\ status[idx] # "alive"
            /\ status' = [status EXCEPT ![idx] = "reaped"]
       ELSE UNCHANGED status
    /\ IF idx = MAX_PROCS - 1
       THEN pc' = "done" /\ exitCode' = Some(0) /\ idx' = idx
       ELSE pc' = pc /\ idx' = idx + 1 /\ UNCHANGED exitCode
    /\ UNCHANGED <<credVars, running, pids, ret, died, termed, kills, forkCount,
                   monitored, dbFiles, brokerSaw, sigCount, orphans, orphanCount>>

\* -------------------------------------------------------------- environment
\* a child exits by itself, fails to exec, or dies of a signal
ChildExit(i) ==
    /\ status[i] = "alive"
    /\ status' = [status EXCEPT ![i] = "zombie"]
    /\ UNCHANGED <<pc, exitCode, credVars, running, pids, ret, idx, died, termed, kills,
                   forkCount, monitored, dbFiles, brokerSaw, sigCount, orphans, orphanCount>>

\* sqld, once running, creates its six files (not world-writable)
SqldCreatesFiles ==
    /\ status[1] = "alive"
    /\ \A n \in DbFileNames : dbFiles[n] = "absent"
    /\ dbFiles' = [n \in DbFileNames |-> "0644"]
    /\ UNCHANGED <<pc, exitCode, credVars, running, pids, ret, idx, died, status, termed,
                   kills, forkCount, monitored, brokerSaw, sigCount, orphans, orphanCount>>

\* a descendant of a child is orphaned, adopted by PID 1, and exits
OrphanExit ==
    /\ pc # "done"
    /\ \E i \in Slots : status[i] # "none"
    /\ orphanCount < MaxOrphans
    /\ orphanCount' = orphanCount + 1
    /\ orphans' = orphans + 1
    /\ UNCHANGED <<pc, exitCode, credVars, running, pids, ret, idx, died, status, termed,
                   kills, forkCount, monitored, dbFiles, brokerSaw, sigCount>>

\* one run of the program: the MQTT credential comes from the secrets file,
\* the HTTP credential from the environment
RunEnv ==
    [n \in AppEnvNames \cup {"MQBASE_MQTT_USER", "MQBASE_USER"} |->
        IF n = "MQBASE_MQTT_USER" THEN NULL
        ELSE IF n = "MQBASE_USER" THEN Some(<<"a", ":", "a">>)
        ELSE AppEnv[n]]
RunSecrets == Some(<<[key |-> "MQBASE_MQTT_USER=", val |-> <<"b", ":", "b">>]>>)

Init == \E u \in {{}, {"/tmp/htpasswd"}} : Start(RunEnv, RunSecrets, u, TRUE)

Next ==
    \/ NextCred
    \/ Signal
    \/ PrepareFs
    \/ \E i \in Slots : StartProcess(i)
    \/ \E i \in Slots : StorePid(i)
    \/ Sleep
    \/ ChmodDbFiles
    \/ MonitorPoll
    \/ MonitorExit
    \/ CleanupKill
    \/ DrainWait
    \/ \E i \in Slots : ChildExit(i)
    \/ SqldCreatesFiles
    \/ OrphanExit

Spec == Init /\ [][Next]_vars

\* the steps main() itself takes: the kernel keeps scheduling the supervisor
MainNext ==
    \/ NextCred
    \/ PrepareFs
    \/ \E i \in Slots : StartProcess(i)
    \/ \E i \in Slots : StorePid(i)
    \/ Sleep
    \/ ChmodDbFiles
    \/ MonitorPoll
    \/ MonitorExit
    \/ CleanupKill
    \/ DrainWait

\* the program under a scheduler that lets main() run whenever it can
SpecLive == Spec /\ WF_vars(MainNext)

\* a child that was sent TERM while it existed exits
TermExit(i) == i \in termed /\ ChildExit(i)

\* the run of the program in which every artifact path can be written
InitWritable == Start(RunEnv, RunSecrets, {}, TRUE)

\* that run under the same scheduler, with children that exit on TERM
SpecTerm ==
    /\ InitWritable
    /\ [][Next]_vars
    /\ WF_vars(MainNext)
    /\ \A i \in Slots : WF_vars(TermExit(i))

\* ================================================================== claims
Creds == {"MQTT", "HTTP"}
EnvName(c) == IF c = "MQTT" THEN "MQBASE_MQTT_USER" ELSE "MQBASE_USER"
FileKey(c) == IF c = "MQTT" THEN "MQBASE_MQTT_USER=" ELSE "MQBASE_USER="
ResolvedUser(c) == IF c = "MQTT" THEN mqtt_user ELSE http_user
ResolvedPass(c) == IF c = "MQTT" THEN mqtt_pass ELSE http_pass

\* the record the secrets file holds for credential c (<<>> when it holds none)
FileRecord(c) ==
    IF secretsFile = NULL THEN <<>>
    ELSE LET ls == secretsFile[1]
             at == {i \in 1..Len(ls) : ls[i].key = FileKey(c)}
         IN  IF at = {} THEN <<>>
             ELSE ls[CHOOSE i \in at : \A j \in at : j <= i].val

\* a credential string of the form user:secret, and its two parts
WellFormed(s) == \E i \in 1..Len(s) : s[i] = ":"
ColonAt(s) == CHOOSE i \in 1..Len(s) : s[i] = ":" /\ \A j \in 1..(i - 1) : s[j] # ":"
UserPart(s) == SubSeq(s, 1, ColonAt(s) - 1)
SecretPart(s) == SubSeq(s, ColonAt(s) + 1, Len(s))

EnvSupplies(c) == env[EnvName(c)] # NULL /\ WellFormed(env[EnvName(c)][1])
FileSupplies(c) == WellFormed(FileRecord(c))
Generated(c) == genOutcome[c] # "none"
Banners(c) == {i \in 1..Len(stderr) : stderr[i].kind = "banner" /\ stderr[i].cred = c}

\* both credentials have been resolved
Resolved == pc \notin {"install", "load", "resolve_mqtt", "resolve_http"}
\* setup_credentials has written (or failed to write) the MQTT artifact
JsonWritten == Resolved /\ pc # "write_json"

\* C1: for each credential, a well-formed env value is the one written to the
\* artifact even when the file holds a record; with the env variable unset a
\* well-formed file record is the one written and nothing is generated; a
\* secret is generated only when neither source supplies the credential.
C1_Precedence ==
    Resolved =>
        \A c \in Creds :
            /\ EnvSupplies(c) =>
                /\ ResolvedUser(c) = UserPart(env[EnvName(c)][1])
                /\ ResolvedPass(c) = SecretPart(env[EnvName(c)][1])
                /\ ~Generated(c)
            /\ (env[EnvName(c)] = NULL /\ FileSupplies(c)) =>
                /\ ResolvedUser(c) = UserPart(FileRecord(c))
                /\ ResolvedPass(c) = SecretPart(FileRecord(c))
                /\ ~Generated(c)
            /\ Generated(c) => (~EnvSupplies(c) /\ ~FileSupplies(c))
            /\ (JsonWritten /\ can_open("/tmp/mqtt-credentials.json")) =>
                   files["/tmp/mqtt-credentials.json"]
                       = Some(JsonUser \o mqtt_user \o JsonPass \o mqtt_pass \o JsonEnd)

\* C2: an env value that is empty or has no ':' is treated as absent: a
\* well-formed record of the secrets file is then used, and nothing is generated.
C2_MalformedEnvFallsThrough ==
    Resolved =>
        \A c \in Creds :
            (env[EnvName(c)] # NULL /\ ~WellFormed(env[EnvName(c)][1]) /\ FileSupplies(c)) =>
                /\ ResolvedUser(c) = UserPart(FileRecord(c))
                /\ ResolvedPass(c) = SecretPart(FileRecord(c))
                /\ ~Generated(c)

\* C3: if an artifact file cannot be written, setup_credentials returns an
\* error, main exits with status 1, and no child is ever forked.
C3_WriteFailureIsFatal ==
    writeFailed # {} =>
        /\ pc \in {"write_htpasswd", "write_appconfig", "check_setup", "done"}
        /\ pc = "check_setup" => setup_ret # 0
        /\ pc = "done" => exitCode = Some(1)
        /\ \A i \in Slots : forkCount[i] = 0 /\ status[i] = "none"

\* C4: in every execution in which INT or TERM was delivered, when main has
\* returned every child a successful fork created has been reaped.
C4_DrainComplete ==
    (sigCount > 0 /\ pc = "done") =>
        \A i \in Slots :
            /\ forkCount[i] > 0 => status[i] = "reaped"
            /\ status[i] \in {"none", "reaped"}

\* C4 witness: a signal arrived during startup, all three children were forked,
\* and main has returned with all three reaped by the drain loop
C4_Witness ==
    /\ pc = "done"
    /\ sigCount > 0
    /\ ~monitored
    /\ \A i \in Slots : pids[i] = PidOf(i) /\ status[i] = "reaped"

\* C5: in the monitor loop, the reap of an exited child sets running to
\* false; with running false no further reap poll happens; the shutdown step
\* sends TERM to every other started child; no child is ever forked again;
\* and once a child has exited under the monitor loop, the supervisor does
\* get to the shutdown step with running false and TERM sent to the others.
C5Step ==
    /\ \A i \in Slots :
        (pc = "monitor" /\ status[i] = "zombie" /\ status'[i] = "reaped") =>
            (running /\ ~running' /\ died' = PidOf(i) /\ pc' = "monitor")
    /\ (pc = "monitor" /\ ~running) =>
        /\ \A i \in Slots : status'[i] = "reaped" => status[i] = "reaped"
        /\ orphans' >= orphans
        /\ died' = died
        /\ pc' \in {"monitor", "kill"}
    /\ (pc = "kill" /\ pc' = "wait") =>
        \A j \in Slots :
            status[j] # "none" =>
                \E k \in kills' : k.slot = j /\ k.by = "cleanup"
    /\ \A i \in Slots : forkCount'[i] <= 1
    /\ monitored => forkCount' = forkCount
C5Drained ==
    /\ ~running
    /\ pc \in {"wait", "done"}
    /\ \A j \in Slots : status[j] # "none" => \E k \in kills : k.slot = j /\ k.by = "cleanup"
C5_ChildExitDrainsGroup ==
    /\ [][C5Step]_vars
    /\ (pc = "monitor" /\ running /\ \E i \in Slots : status[i] = "zombie") ~> C5Drained

\* C5 witness: sqld exited in the monitor loop with no signal delivered, was
\* reaped there, and the shutdown step sent TERM to the two live children
C5_Witness ==
    /\ pc = "wait"
    /\ sigCount = 0
    /\ monitored
    /\ died = PidOf(1)
    /\ ~running
    /\ [slot |-> 0, by |-> "cleanup", st |-> "alive"] \in kills
    /\ [slot |-> 2, by |-> "cleanup", st |-> "alive"] \in kills
    /\ \A i \in Slots : forkCount[i] = 1

\* C6: a signal delivered during startup aborts it: TERM goes to the pids
\* known at that moment and no child is forked once the signal was handled.
C6Step ==
    /\ (sigCount' = sigCount + 1) =>
        \A i \in Slots : pids[i] > 0 => \E k \in kills' : k.slot = i /\ k.by = "handler"
    /\ sigCount > 0 => forkCount' = forkCount
C6_SignalAbortsStartup == [][C6Step]_vars

\* C7: a failed fork is a failed start: no later child is forked and the
\* monitor loop is not entered.
C7Step ==
    (ret < 0 \/ \E i \in Slots : pids[i] < 0) =>
        /\ forkCount' = forkCount
        /\ ~monitored'
C7_ForkFailureDrains == [][C7Step]_vars

\* C8: when the broker is forked, the six database files exist and are
\* world-writable.
C8_BrokerAfterDbFiles ==
    brokerSaw # NULL => \A n \in DbFileNames : brokerSaw[1][n] = "0666"

\* C9: after resolution the user of each credential is non-empty, and it is
\* "admin" whenever no user was supplied.
C9_UserNonEmpty ==
    Resolved =>
        \A c \in Creds :
            /\ ResolvedUser(c) # <<>>
            /\ Generated(c) => ResolvedUser(c) = Admin

\* C10: whenever neither source supplies a credential, the user is "admin",
\* the secret has exactly 16 alphanumeric characters whatever the random
\* source did, and the banner with that secret was emitted exactly once.
C10_GeneratedSecret ==
    Resolved =>
        \A c \in Creds :
            (~EnvSupplies(c) /\ ~FileSupplies(c)) =>
                /\ ResolvedUser(c) = Admin
                /\ Len(ResolvedPass(c)) = GenLen - 1
                /\ \A i \in 1..Len(ResolvedPass(c)) : ResolvedPass(c)[i] \in Alphanumeric
                /\ Cardinality(Banners(c)) = 1
                /\ \A i \in Banners(c) : stderr[i].password = ResolvedPass(c)

\* C11: in every state, for each slot, the recorded pid is greater than 0
\* exactly when the fork of that child succeeded and the supervisor has not
\* yet reaped it (the moment between fork's return and the assignment to the
\* slot is left out).
C11_PidPositiveIffLive ==
    \A i \in Slots :
        pc # StorePc(i) =>
            ((pids[i] > 0) <=> (forkCount[i] > 0 /\ status[i] # "reaped"))

\* the positions of main() from its first statement to the monitor loop
StartupOrder ==
    <<"install", "load", "resolve_mqtt", "resolve_http", "write_json", "write_htpasswd",
      "write_appconfig", "check_setup", "mkdirs", "fork0", "store0", "fork1", "store1",
      "sleep", "chmod", "fork2", "store2", "monitor">>
Rank(p) == CHOOSE k \in 1..Len(StartupOrder) : StartupOrder[k] = p
InStartup(p) == \E k \in 1..(Len(StartupOrder) - 1) : StartupOrder[k] = p

\* C12: the startup events happen one after the other in the order handlers,
\* three artifacts, directories, nginx, sqld, delay, permission adjustment,
\* mosquitto; a child is forked only at its own place in that order, and only
\* when all three artifact files have been written.
C12Step ==
    /\ (InStartup(pc) /\ pc' # pc) =>
        \/ pc' = "done"
        \/ (\E k \in 1..Len(StartupOrder) : StartupOrder[k] = pc') /\ Rank(pc') = Rank(pc) + 1
    /\ \A i \in Slots :
        forkCount'[i] > forkCount[i] =>
            /\ pc = ForkPc(i)
            /\ \A p \in ArtifactPaths : files[p] # NULL
C12_StartupOrder == [][C12Step]_vars

\* C13: with main scheduled fairly and children that exit once they were sent
\* TERM, after INT or TERM was delivered (at any point after the handlers
\* were installed) main returns with status 0, and by then TERM has been sent
\* to the pid of every child that was forked.
C13Returned ==
    /\ pc = "done"
    /\ exitCode = Some(0)
    /\ \A i \in Slots : forkCount[i] > 0 => \E k \in kills : k.slot = i
C13_SignalTerminates == (sigCount > 0) ~> C13Returned

\* C13 witness: the signal arrived in the monitor loop with the three children
\* alive, the handler sent TERM to each, and main has returned 0
C13_Witness ==
    /\ C13Returned
    /\ sigCount > 0
    /\ monitored
    /\ \A i \in Slots : [slot |-> i, by |-> "handler", st |-> "alive"] \in kills

\* C14: no restart: each child is forked at most once, a fork is only ever
\* the first fork of a child not started before, and once a child has exited
\* or running is false no child that was already started is forked again.
C14Step ==
    \A i \in Slots :
        /\ forkCount'[i] <= 1
        /\ forkCount'[i] > forkCount[i] => (forkCount[i] = 0 /\ status[i] = "none")
        /\ ((~running \/ \E j \in Slots : status[j] \in {"zombie", "reaped"})
                /\ status[i] # "none") => forkCount'[i] = forkCount[i]
C14_NoRestart == [][C14Step]_vars

\* C14 witness: nginx exited by itself, was reaped by the monitor loop, and
\* main has returned with every child forked exactly once
C14_Witness ==
    /\ pc = "done"
    /\ sigCount = 0
    /\ died = PidOf(0)
    /\ \A i \in Slots : forkCount[i] = 1 /\ status[i] = "reaped"

\* C15: TERM is sent only to recorded pids not yet reaped: no kill, from the
\* signal handler or from the shutdown step, is issued to the pid of a child
\* the supervisor has already reaped.
C15_NoKillAfterReap == \A k \in kills : k.st # "reaped"

\* C16: when a child already started has exited while main is still in its
\* startup sequence, no further child is forked.
C16Step ==
    (InStartup(pc) /\ \E j \in Slots : status[j] = "zombie") => forkCount' = forkCount
C16_ExitDuringStartupAborts == [][C16Step]_vars

\* C17: once running is false and the shutdown step has begun, the delivery
\* of a further INT or TERM changes nothing: running and the pid table stay
\* as they are and no further TERM is sent to any child.
C17Step ==
    (pc \in {"kill", "wait"} /\ ~running /\ sigCount' > sigCount) =>
        /\ running' = running
        /\ pids' = pids
        /\ kills' = kills
        /\ termed' = termed
C17_SignalIgnoredWhileDraining == [][C17Step]_vars

\* C18: every kill, from the signal handler or from the shutdown step, is
\* issued for a slot whose pid is greater than 0 and is the pid a successful
\* fork of that child returned; a slot holding 0 or a negative value never
\* gets a kill.
C18Step ==
    \A k \in kills' \ kills :
        /\ pids[k.slot] > 0
        /\ forkCount[k.slot] > 0
        /\ pids[k.slot] = PidOf(k.slot)
        /\ k.st # "none"
C18_KillOnlyForkedPids == [][C18Step]_vars

\* C18 witness: the fork of nginx failed (slot holds -1), mosquitto is not yet
\* started (slot holds 0), and the handler has sent TERM to sqld alone
C18_Witness ==
    /\ pids[0] < 0
    /\ pids[1] = PidOf(1)
    /\ pids[2] = 0
    /\ kills = {[slot |-> 1, by |-> "handler", st |-> "alive"]}

\* C19: a turn of the monitor loop whose reap returns no child (0), an error
\* (-1) or a pid that is in none of the three slots leaves running true and
\* the pid table unchanged and sends no TERM; a turn sets running to false
\* only when the reaped pid is in one of the slots.
C19Step ==
    MonitorPoll =>
        /\ (died' <= 0 \/ \A j \in Slots : pids[j] # died') =>
            /\ running'
            /\ pids' = pids
            /\ kills' = kills
            /\ termed' = termed
        /\ ~running' => (died' > 0 /\ \E j \in Slots : pids[j] = died')
C19_MonitorFrame == [][C19Step]_vars

\* C19 witness: with the three children alive, the monitor loop has reaped an
\* orphan and is still running, with no TERM sent
C19_Witness ==
    /\ pc = "monitor"
    /\ monitored
    /\ died = OrphanPid
    /\ running
    /\ kills = {}
    /\ \A i \in Slots : pids[i] = PidOf(i) /\ status[i] = "alive"

\* the string setup_credentials parses for credential c (NULL when no source
\* was selected)
SelectedCred(c) == IF c = "MQTT" THEN mqtt_cred ELSE http_cred

\* C20: parsing splits at the first ':' only: for every selected string with
\* at least one ':' the user is everything before the first ':' and the
\* secret everything after it, further ':' included; a string with no ':'
\* yields no credential (user "admin" and a generated secret instead).
C20_SplitAtFirstColon ==
    Resolved =>
        \A c \in Creds :
            SelectedCred(c) # NULL =>
                IF WellFormed(SelectedCred(c)[1])
                THEN /\ ResolvedUser(c) = UserPart(SelectedCred(c)[1])
                     /\ ResolvedPass(c) = SecretPart(SelectedCred(c)[1])
                     /\ ~Generated(c)
                ELSE /\ ResolvedUser(c) = Admin
                     /\ Generated(c)

====
